---------------------------- MODULE Spec2Model ----------------------------
(***************************************************************************)
(* A model of csd-cpp: the Canonical Signed Digit codec (csd.cpp, csd.hpp)  *)
(* and the longest repeated non-overlapping substring finder (lcsre.cpp).  *)
(*                                                                         *)
(* Strings are sequences of one-character strings; the end of a sequence   *)
(* stands for the terminating '\0'.  An int is an integer of IntWidth bits *)
(* (two's complement, arithmetic modulo 2^IntWidth), an unsigned int /     *)
(* uint32_t a natural below 2^IntWidth.  A double is a dyadic rational,    *)
(* held as an integer count of units of 2^-PrecBits; every double the      *)
(* model produces has at most PrecBits fractional bits, so the code's      *)
(* floating-point arithmetic on it is exact.                               *)
(***************************************************************************)
EXTENDS Integers, Sequences, FiniteSets, TLC

VARIABLES value, places, nnz, enc, encThrown, csd, dec, decSwitch, decI,
          text, lrs, full, run

vars == <<value, places, nnz, enc, encThrown, csd, dec, decSwitch, decI,
          text, lrs, full, run>>

---------------------------------------------------------------------------
(* Bounds of the model                                                     *)

\* width in bits of int, unsigned int and uint32_t (32 in the build)
IntWidth == 8
\* the decoders are given every string up to this length (and longer ones
\* with a run of '0', see Strings)
MaxLen == 4
\* the real encoders are given every double up to this magnitude (and the
\* ones around the end of the int range, see Reals)
MaxReal == 20
\* fractional bits of the doubles given to the real encoders
FracBits == 2
\* largest places argument given to to_csd
MaxPlaces == 3
\* largest nnz argument given to to_csdnnz and to_csdnnz_i
MaxNnz == 3
\* longest_repeated_substring is given every text up to this length
MaxText == 8

---------------------------------------------------------------------------
(* Machine arithmetic                                                      *)

RECURSIVE Pow2(_)
Pow2(n) == IF n <= 0 THEN 1 ELSE 2 * Pow2(n - 1)

Abs(x) == IF x < 0 THEN -x ELSE x

IntMod == Pow2(IntWidth)
IntMax == Pow2(IntWidth - 1) - 1
IntMin == -Pow2(IntWidth - 1)

\* a result brought back into int (two's complement wrap-around)
ToInt(x) == ((x - IntMin) % IntMod) + IntMin

\* conversion to unsigned int / uint32_t, and unsigned arithmetic
ToUInt(x) == x % IntMod

\* int division truncates toward zero
TruncDiv(a, b) == IF a >= 0 THEN a \div b ELSE -((-a) \div b)

\* x >> k on an unsigned value
Shr(x, k) == x \div Pow2(k)

RECURSIVE BitOr(_, _)
BitOr(a, b) ==
    IF a = 0 THEN b
    ELSE IF b = 0 THEN a
    ELSE (IF a % 2 = 1 \/ b % 2 = 1 THEN 1 ELSE 0) + 2 * BitOr(a \div 2, b \div 2)

RECURSIVE BitXor(_, _)
BitXor(a, b) ==
    IF a = 0 THEN b
    ELSE IF b = 0 THEN a
    ELSE (IF a % 2 # b % 2 THEN 1 ELSE 0) + 2 * BitXor(a \div 2, b \div 2)

\* doubles: units of 2^-PrecBits
PrecBits == MaxLen
Unit == Pow2(PrecBits)

\* p2n /= 2.0
Half(p2n) == p2n \div 2

\* 1e-100 in units of 2^-PrecBits: below every nonzero double of the model
Eps == 0

---------------------------------------------------------------------------
(* csd.cpp: the encoders                                                   *)

highest_power_of_two_in(x) ==
    LET x1 == BitOr(x, Shr(x, 1))
        x2 == BitOr(x1, Shr(x1, 2))
        x3 == BitOr(x2, Shr(x2, 4))
        x4 == BitOr(x3, Shr(x3, 8))
        x5 == BitOr(x4, Shr(x4, 16))
    IN  BitXor(x5, Shr(x5, 1))

\* rem = int(ceil(log2(absnum * 1.5))) for absnum >= 1.0: the least r with
\* 2^r >= 1.5 * absnum
RECURSIVE CeilLog2x15(_, _)
CeilLog2x15(absnum, r) ==
    IF 2 * Pow2(r) * Unit >= 3 * absnum THEN r ELSE CeilLog2x15(absnum, r + 1)

\* a variant that writes no "0" for a magnitude below 1.0
EncStart_NoLeadingZero(decimal_value, n) ==
    LET absnum == Abs(decimal_value)
        rem == IF absnum >= Unit THEN CeilLog2x15(absnum, 0) ELSE 0
    IN  [rem |-> rem,
         csd |-> <<>>,
         p2n |-> Unit * Pow2(rem),
         decimal_value |-> decimal_value,
         nnz |-> n]

\* the state of to_csd / to_csdnnz before their digit loop
EncStart(decimal_value, n) ==
    LET absnum == Abs(decimal_value)
        rem == IF absnum >= Unit THEN CeilLog2x15(absnum, 0) ELSE 0
    IN  [rem |-> rem,
         csd |-> IF absnum >= Unit THEN <<>> ELSE <<"0">>,
         p2n |-> Unit * Pow2(rem),
         decimal_value |-> decimal_value,
         nnz |-> n]

\* one iteration of loop_fn's while loop
to_csd_step(s) ==
    LET p2n == Half(s.p2n)
        rem == s.rem - 1
    IN  IF 3 * s.decimal_value > 2 * p2n
        THEN [s EXCEPT !.p2n = p2n, !.rem = rem, !.csd = Append(@, "+"),
                       !.decimal_value = @ - p2n]
        ELSE IF 3 * s.decimal_value < -(2 * p2n)
        THEN [s EXCEPT !.p2n = p2n, !.rem = rem, !.csd = Append(@, "-"),
                       !.decimal_value = @ + p2n]
        ELSE [s EXCEPT !.p2n = p2n, !.rem = rem, !.csd = Append(@, "0")]

\* the condition of loop_fn's while loop, and a variant that takes the bound
\* by its magnitude
loop_fn_guard_Magnitude(s, v) == s.rem > -Abs(v)

loop_fn_guard(s, v) == s.rem > v

\* a variant whose loop runs once more: while (rem >= v)
RECURSIVE loop_fn_Inclusive(_, _)
loop_fn_Inclusive(s, v) ==
    IF s.rem >= v THEN loop_fn_Inclusive(to_csd_step(s), v) ELSE s

RECURSIVE loop_fn(_, _)
loop_fn(s, v) == IF s.rem > v THEN loop_fn(to_csd_step(s), v) ELSE s

\* a variant with the zero shortcut of the older revision (csd.cpp, second
\* copy): if (num == 0.0) return "0"
to_csd_ZeroShortcut(decimal_value, pl) ==
    IF decimal_value = 0 THEN <<"0">>
    ELSE LET s1 == loop_fn(EncStart(decimal_value, 0), 0)
             s2 == [s1 EXCEPT !.csd = Append(@, ".")]
         IN  loop_fn(s2, -pl).csd

to_csd(decimal_value, pl) ==
    LET s1 == loop_fn(EncStart(decimal_value, 0), 0)
        s2 == [s1 EXCEPT !.csd = Append(@, ".")]
    IN  loop_fn(s2, -pl).csd

\* a variant of the iteration with the thresholds of plain binary: a digit
\* is written when the remainder reaches the new weight
to_csd_i_step_Binary(s) ==
    LET p2n_half == Shr(s.p2n, 1)
    IN  IF s.decimal_value >= ToInt(p2n_half)
        THEN [s EXCEPT !.p2n = p2n_half, !.csd = Append(@, "+"),
                       !.decimal_value = ToInt(@ - p2n_half)]
        ELSE IF s.decimal_value <= ToInt(-ToInt(p2n_half))
        THEN [s EXCEPT !.p2n = p2n_half, !.csd = Append(@, "-"),
                       !.decimal_value = ToInt(@ + p2n_half)]
        ELSE [s EXCEPT !.p2n = p2n_half, !.csd = Append(@, "0")]

\* one iteration of to_csd_i's while loop
to_csd_i_step(s) ==
    LET p2n_half == Shr(s.p2n, 1)
        det == ToInt(3 * s.decimal_value)
    IN  IF det > ToInt(s.p2n)
        THEN [s EXCEPT !.p2n = p2n_half, !.csd = Append(@, "+"),
                       !.decimal_value = ToInt(@ - p2n_half)]
        ELSE IF det < ToInt(-ToInt(s.p2n))
        THEN [s EXCEPT !.p2n = p2n_half, !.csd = Append(@, "-"),
                       !.decimal_value = ToInt(@ + p2n_half)]
        ELSE [s EXCEPT !.p2n = p2n_half, !.csd = Append(@, "0")]

\* a variant of the loop that stops one digit early: while (p2n > 2)
RECURSIVE to_csd_i_loop_StopEarly(_)
to_csd_i_loop_StopEarly(s) ==
    IF s.p2n > 2 THEN to_csd_i_loop_StopEarly(to_csd_i_step(s)) ELSE s

RECURSIVE to_csd_i_loop(_)
to_csd_i_loop(s) == IF s.p2n > 1 THEN to_csd_i_loop(to_csd_i_step(s)) ELSE s

\* IntEncStart with the first weight taken from |decimal_value| itself, without
\* the factor 3/2
IntEncStart_NoHeadroom(decimal_value, n) ==
    LET temp == ToUInt(ToInt(Abs(decimal_value)))
    IN  [p2n |-> ToUInt(highest_power_of_two_in(temp) * 2),
         csd |-> <<>>,
         decimal_value |-> decimal_value,
         nnz |-> n]

\* the state of to_csd_i / to_csdnnz_i before their digit loop
IntEncStart(decimal_value, n) ==
    LET temp == ToUInt(TruncDiv(ToInt(ToInt(Abs(decimal_value)) * 3), 2))
    IN  [p2n |-> ToUInt(highest_power_of_two_in(temp) * 2),
         csd |-> <<>>,
         decimal_value |-> decimal_value,
         nnz |-> n]

to_csd_i(decimal_value) ==
    IF decimal_value = 0 THEN <<"0">>
    ELSE to_csd_i_loop(IntEncStart(decimal_value, 0)).csd

\* one iteration of to_csdnnz's while loop
to_csdnnz_step(s) ==
    LET s0 == IF s.rem = 0 THEN [s EXCEPT !.csd = Append(@, ".")] ELSE s
        p2n == Half(s0.p2n)
        rem == s0.rem - 1
        s1 == IF 3 * s0.decimal_value > 2 * p2n
              THEN [s0 EXCEPT !.p2n = p2n, !.rem = rem, !.csd = Append(@, "+"),
                              !.decimal_value = @ - p2n, !.nnz = ToUInt(@ - 1)]
              ELSE IF 3 * s0.decimal_value < -(2 * p2n)
              THEN [s0 EXCEPT !.p2n = p2n, !.rem = rem, !.csd = Append(@, "-"),
                              !.decimal_value = @ + p2n, !.nnz = ToUInt(@ - 1)]
              ELSE [s0 EXCEPT !.p2n = p2n, !.rem = rem, !.csd = Append(@, "0")]
    IN  IF s1.nnz = 0 THEN [s1 EXCEPT !.decimal_value = 0] ELSE s1

\* the condition of to_csdnnz's while loop, and a variant that also runs at
\* rem = 0
to_csdnnz_guard_Inclusive(s) ==
    s.rem >= 0 \/ (s.nnz > 0 /\ Abs(s.decimal_value) > Eps)

to_csdnnz_guard(s) ==
    s.rem > 0 \/ (s.nnz > 0 /\ Abs(s.decimal_value) > Eps)

RECURSIVE to_csdnnz_loop(_)
to_csdnnz_loop(s) ==
    IF s.rem > 0 \/ (s.nnz > 0 /\ Abs(s.decimal_value) > Eps)
    THEN to_csdnnz_loop(to_csdnnz_step(s))
    ELSE s

to_csdnnz(decimal_value, n) == to_csdnnz_loop(EncStart(decimal_value, n)).csd

\* a variant that zeroes the residual one nonzero digit too early
to_csdnnz_i_step_EarlyStop(s) ==
    LET p2n_half == Shr(s.p2n, 1)
        det == ToInt(3 * s.decimal_value)
        s1 == IF det > ToInt(s.p2n)
              THEN [s EXCEPT !.p2n = p2n_half, !.csd = Append(@, "+"),
                             !.decimal_value = ToInt(@ - p2n_half),
                             !.nnz = ToUInt(@ - 1)]
              ELSE IF det < ToInt(-ToInt(s.p2n))
              THEN [s EXCEPT !.p2n = p2n_half, !.csd = Append(@, "-"),
                             !.decimal_value = ToInt(@ + p2n_half),
                             !.nnz = ToUInt(@ - 1)]
              ELSE [s EXCEPT !.p2n = p2n_half, !.csd = Append(@, "0")]
    IN  IF s1.nnz <= 1 THEN [s1 EXCEPT !.decimal_value = 0] ELSE s1

\* one iteration of to_csdnnz_i's while loop
to_csdnnz_i_step(s) ==
    LET p2n_half == Shr(s.p2n, 1)
        det == ToInt(3 * s.decimal_value)
        s1 == IF det > ToInt(s.p2n)
              THEN [s EXCEPT !.p2n = p2n_half, !.csd = Append(@, "+"),
                             !.decimal_value = ToInt(@ - p2n_half),
                             !.nnz = ToUInt(@ - 1)]
              ELSE IF det < ToInt(-ToInt(s.p2n))
              THEN [s EXCEPT !.p2n = p2n_half, !.csd = Append(@, "-"),
                             !.decimal_value = ToInt(@ + p2n_half),
                             !.nnz = ToUInt(@ - 1)]
              ELSE [s EXCEPT !.p2n = p2n_half, !.csd = Append(@, "0")]
    IN  IF s1.nnz = 0 THEN [s1 EXCEPT !.decimal_value = 0] ELSE s1

\* the condition of to_csdnnz_i's while loop
to_csdnnz_i_guard(s) == s.p2n > 1

RECURSIVE to_csdnnz_i_loop(_)
to_csdnnz_i_loop(s) ==
    IF s.p2n > 1 THEN to_csdnnz_i_loop(to_csdnnz_i_step(s)) ELSE s

to_csdnnz_i(decimal_value, n) ==
    IF decimal_value = 0 THEN <<"0">>
    ELSE to_csdnnz_i_loop(IntEncStart(decimal_value, n)).csd

---------------------------------------------------------------------------
(* csd.hpp: the decoders                                                   *)

\* a returned number, and the std::invalid_argument a decoder throws
Returned(x) == [kind |-> "value", val |-> x]
Thrown(msg) == [kind |-> "invalid_argument", what |-> msg]
NotCalled == [kind |-> "none"]

\* *csd at position pos; the end of the sequence is the '\0'
CharAt(s, pos) == IF pos <= Len(s) THEN s[pos] ELSE "\\0"

\* to_decimal_integral without the '.' case: only the '\0' ends the loop
RECURSIVE to_decimal_integral_NoDot(_, _, _)
to_decimal_integral_NoDot(s, pos, decimal_value) ==
    LET digit == CharAt(s, pos)
    IN  IF digit = "0"
        THEN to_decimal_integral_NoDot(s, pos + 1, ToInt(2 * decimal_value))
        ELSE IF digit = "+"
        THEN to_decimal_integral_NoDot(s, pos + 1, ToInt(ToInt(2 * decimal_value) + 1))
        ELSE IF digit = "-"
        THEN to_decimal_integral_NoDot(s, pos + 1, ToInt(ToInt(2 * decimal_value) - 1))
        ELSE IF digit = "\\0"
        THEN [kind |-> "value", val |-> decimal_value, pos |-> pos]
        ELSE [kind |-> "invalid_argument", what |-> "Work with 0, +, -, and . only",
              pos |-> pos]

\* to_decimal_integral advances the caller's pointer: pos is where it stops
RECURSIVE to_decimal_integral(_, _, _)
to_decimal_integral(s, pos, decimal_value) ==
    LET digit == CharAt(s, pos)
    IN  IF digit = "0"
        THEN to_decimal_integral(s, pos + 1, ToInt(2 * decimal_value))
        ELSE IF digit = "+"
        THEN to_decimal_integral(s, pos + 1, ToInt(ToInt(2 * decimal_value) + 1))
        ELSE IF digit = "-"
        THEN to_decimal_integral(s, pos + 1, ToInt(ToInt(2 * decimal_value) - 1))
        ELSE IF digit = "." \/ digit = "\\0"
        THEN [kind |-> "value", val |-> decimal_value, pos |-> pos]
        ELSE [kind |-> "invalid_argument", what |-> "Work with 0, +, -, and . only",
              pos |-> pos]

\* to_decimal_fractional's loop with a break on every character that is not
\* a digit, instead of the throw
RECURSIVE to_decimal_fractional_loop_Break(_, _, _, _)
to_decimal_fractional_loop_Break(s, pos, decimal_value, scale) ==
    LET digit == CharAt(s, pos)
    IN  IF digit = "0"
        THEN to_decimal_fractional_loop_Break(s, pos + 1, decimal_value, Half(scale))
        ELSE IF digit = "+"
        THEN to_decimal_fractional_loop_Break(s, pos + 1, decimal_value + scale,
                                              Half(scale))
        ELSE IF digit = "-"
        THEN to_decimal_fractional_loop_Break(s, pos + 1, decimal_value - scale,
                                              Half(scale))
        ELSE Returned(decimal_value)

RECURSIVE to_decimal_fractional_loop(_, _, _, _)
to_decimal_fractional_loop(s, pos, decimal_value, scale) ==
    LET digit == CharAt(s, pos)
    IN  IF digit = "0"
        THEN to_decimal_fractional_loop(s, pos + 1, decimal_value, Half(scale))
        ELSE IF digit = "+"
        THEN to_decimal_fractional_loop(s, pos + 1, decimal_value + scale, Half(scale))
        ELSE IF digit = "-"
        THEN to_decimal_fractional_loop(s, pos + 1, decimal_value - scale, Half(scale))
        ELSE IF digit = "\\0"
        THEN Returned(decimal_value)
        ELSE Thrown("Fractional part work with 0, +, and - only")

\* csd points at the '.'; the loop starts one past it
to_decimal_fractional(s, pos) ==
    to_decimal_fractional_loop(s, pos + 1, 0, Half(Unit))

\* a variant whose exception tells where the integral scan stopped
to_decimal_WithPosition(s) ==
    LET integral == to_decimal_integral(s, 1, 0)
    IN  IF integral.kind # "value"
        THEN [kind |-> "invalid_argument", what |-> integral.what,
              pos |-> integral.pos]
        ELSE IF CharAt(s, integral.pos) = "\\0" THEN Returned(integral.val * Unit)
        ELSE LET fractional == to_decimal_fractional(s, integral.pos)
             IN  IF fractional.kind # "value" THEN fractional
                 ELSE Returned(integral.val * Unit + fractional.val)

to_decimal(s) ==
    LET integral == to_decimal_integral(s, 1, 0)
    IN  IF integral.kind # "value" THEN Thrown(integral.what)
        ELSE IF CharAt(s, integral.pos) = "\\0" THEN Returned(integral.val * Unit)
        ELSE LET fractional == to_decimal_fractional(s, integral.pos)
             IN  IF fractional.kind # "value" THEN fractional
                 ELSE Returned(integral.val * Unit + fractional.val)

to_decimal_i(s) ==
    LET integral == to_decimal_integral(s, 1, 0)
    IN  IF integral.kind # "value" THEN Thrown(integral.what)
        ELSE Returned(integral.val)

\* a variant of the fractional loop that passes over a '.'
RECURSIVE switch_fractional_SkipDot(_, _, _, _)
switch_fractional_SkipDot(s, pos, decimal_value, scale) ==
    LET c == CharAt(s, pos)
    IN  IF c = "\\0" THEN Returned(decimal_value)
        ELSE IF c = "0" \/ c = "."
        THEN switch_fractional_SkipDot(s, pos + 1, decimal_value, Half(scale))
        ELSE IF c = "+"
        THEN switch_fractional_SkipDot(s, pos + 1, decimal_value + scale, Half(scale))
        ELSE IF c = "-"
        THEN switch_fractional_SkipDot(s, pos + 1, decimal_value - scale, Half(scale))
        ELSE Thrown("Fractional part work with 0, +, and - only")

RECURSIVE switch_fractional(_, _, _, _)
switch_fractional(s, pos, decimal_value, scale) ==
    LET c == CharAt(s, pos)
    IN  IF c = "\\0" THEN Returned(decimal_value)
        ELSE IF c = "0" THEN switch_fractional(s, pos + 1, decimal_value, Half(scale))
        ELSE IF c = "+"
        THEN switch_fractional(s, pos + 1, decimal_value + scale, Half(scale))
        ELSE IF c = "-"
        THEN switch_fractional(s, pos + 1, decimal_value - scale, Half(scale))
        ELSE Thrown("Fractional part work with 0, +, and - only")

RECURSIVE switch_integral(_, _, _)
switch_integral(s, pos, decimal_value) ==
    LET c == CharAt(s, pos)
    IN  IF c = "\\0" THEN Returned(decimal_value)
        ELSE IF c = "." THEN switch_fractional(s, pos + 1, decimal_value, Half(Unit))
        ELSE IF c = "0" THEN switch_integral(s, pos + 1, 2 * decimal_value)
        ELSE IF c = "+" THEN switch_integral(s, pos + 1, 2 * decimal_value + Unit)
        ELSE IF c = "-" THEN switch_integral(s, pos + 1, 2 * decimal_value - Unit)
        ELSE Thrown("Work with 0, +, -, and . only")

to_decimal_using_switch(s) == switch_integral(s, 1, 0)

---------------------------------------------------------------------------
(* lcsre.cpp: the longest repeated non-overlapping substring               *)

\* the locals of longest_repeated_substring before its loops: the two rows
\* of the table, res_length, index, the outer counter i and the result
lrs_start(len) ==
    [pc |-> "loop",
     i |-> 1,
     lcsre |-> [r \in 0 .. 1 |-> [c \in 0 .. len |-> 0]],
     res_length |-> 0,
     index |-> 0,
     res |-> <<>>]

\* variants of the inner loop's body: without the gap test, with a gap test
\* that is one too strict, and with the best replaced on a tie
lcsre_cell_NoGap(s, sv, i, j) ==
    LET prev == s.lcsre[(i - 1) % 2][j - 1]
    IN  IF sv[i] = sv[j]
        THEN LET cur == prev + 1
                 t == [s EXCEPT !.lcsre[i % 2][j] = cur]
             IN  IF cur > s.res_length
                 THEN [t EXCEPT !.res_length = cur,
                                !.index = IF @ < i THEN i ELSE @]
                 ELSE t
        ELSE [s EXCEPT !.lcsre[i % 2][j] = 0]

lcsre_cell_WideGap(s, sv, i, j) ==
    LET prev == s.lcsre[(i - 1) % 2][j - 1]
    IN  IF sv[i] = sv[j] /\ prev + 1 < j - i
        THEN LET cur == prev + 1
                 t == [s EXCEPT !.lcsre[i % 2][j] = cur]
             IN  IF cur > s.res_length
                 THEN [t EXCEPT !.res_length = cur,
                                !.index = IF @ < i THEN i ELSE @]
                 ELSE t
        ELSE [s EXCEPT !.lcsre[i % 2][j] = 0]

lcsre_cell_LastBest(s, sv, i, j) ==
    LET prev == s.lcsre[(i - 1) % 2][j - 1]
    IN  IF sv[i] = sv[j] /\ prev < j - i
        THEN LET cur == prev + 1
                 t == [s EXCEPT !.lcsre[i % 2][j] = cur]
             IN  IF cur >= s.res_length
                 THEN [t EXCEPT !.res_length = cur,
                                !.index = IF @ < i THEN i ELSE @]
                 ELSE t
        ELSE [s EXCEPT !.lcsre[i % 2][j] = 0]

\* a variant that reads the cell to the left in the row being written
lcsre_cell_SameRow(s, sv, i, j) ==
    LET prev == s.lcsre[i % 2][j - 1]
    IN  IF sv[i] = sv[j] /\ prev < j - i
        THEN LET cur == prev + 1
                 t == [s EXCEPT !.lcsre[i % 2][j] = cur]
             IN  IF cur > s.res_length
                 THEN [t EXCEPT !.res_length = cur,
                                !.index = IF @ < i THEN i ELSE @]
                 ELSE t
        ELSE [s EXCEPT !.lcsre[i % 2][j] = 0]

\* the body of the inner loop for the cell (i, j); sv[i - 1] of the code is
\* the i-th character of the text
lcsre_cell(s, sv, i, j) ==
    LET prev == s.lcsre[(i - 1) % 2][j - 1]
    IN  IF sv[i] = sv[j] /\ prev < j - i
        THEN LET cur == prev + 1
                 t == [s EXCEPT !.lcsre[i % 2][j] = cur]
             IN  IF cur > s.res_length
                 THEN [t EXCEPT !.res_length = cur,
                                !.index = IF @ < i THEN i ELSE @]
                 ELSE t
        ELSE [s EXCEPT !.lcsre[i % 2][j] = 0]

\* a variant of the inner loop that leaves the last column unwritten
RECURSIVE lcsre_row_SkipLast(_, _, _, _, _)
lcsre_row_SkipLast(s, sv, i, j, ndim) ==
    IF j >= ndim - 1 THEN s
    ELSE lcsre_row_SkipLast(lcsre_cell(s, sv, i, j), sv, i, j + 1, ndim)

\* the inner loop: j from its current value up to ndim
RECURSIVE lcsre_row(_, _, _, _, _)
lcsre_row(s, sv, i, j, ndim) ==
    IF j = ndim THEN s ELSE lcsre_row(lcsre_cell(s, sv, i, j), sv, i, j + 1, ndim)

\* a variant whose inner loop starts at j = i + 2
lcsre_outer_SkipAdjacent(s, sv, ndim) ==
    [(IF s.i + 1 = ndim THEN s ELSE lcsre_row(s, sv, s.i, s.i + 2, ndim))
        EXCEPT !.i = @ + 1]

\* one iteration of the outer loop
lcsre_outer(s, sv, ndim) ==
    [lcsre_row(s, sv, s.i, s.i + 1, ndim) EXCEPT !.i = @ + 1]

\* a variant that returns nothing for a best of length one
lrs_result_MinTwo(s, sv) ==
    [s EXCEPT !.pc = "done",
              !.res = IF s.res_length > 1
                      THEN SubSeq(sv, s.index - s.res_length + 1, s.index)
                      ELSE <<>>]

\* after the loops: the substring of length res_length that ends at index
lrs_result(s, sv) ==
    [s EXCEPT !.pc = "done",
              !.res = IF s.res_length > 0
                      THEN SubSeq(sv, s.index - s.res_length + 1, s.index)
                      ELSE <<>>]

RECURSIVE lrs_loop(_, _, _)
lrs_loop(s, sv, ndim) ==
    IF s.i = ndim THEN s ELSE lrs_loop(lcsre_outer(s, sv, ndim), sv, ndim)

longest_repeated_substring(sv, len) ==
    lrs_result(lrs_loop(lrs_start(len), sv, len + 1), sv).res

---------------------------------------------------------------------------
(* The earlier revision of longest_repeated_substring, with the full table *)

\* its locals before the loops: the (n + 1) x (n + 1) table
full_start(n) ==
    [pc |-> "loop",
     i |-> 1,
     lcsre |-> [r \in 0 .. n |-> [c \in 0 .. n |-> 0]],
     res_length |-> 0,
     index |-> 0,
     res |-> <<>>]

\* the body of its inner loop for the cell (i, j)
full_cell(s, sv, i, j) ==
    LET prev == s.lcsre[i - 1][j - 1]
    IN  IF sv[i] = sv[j] /\ prev < j - i
        THEN LET cur == prev + 1
                 t == [s EXCEPT !.lcsre[i][j] = cur]
             IN  IF cur > s.res_length
                 THEN [t EXCEPT !.res_length = cur,
                                !.index = IF @ < i THEN i ELSE @]
                 ELSE t
        ELSE [s EXCEPT !.lcsre[i][j] = 0]

RECURSIVE full_row(_, _, _, _, _)
full_row(s, sv, i, j, n) ==
    IF j = n + 1 THEN s ELSE full_row(full_cell(s, sv, i, j), sv, i, j + 1, n)

\* one iteration of its outer loop
full_outer(s, sv, n) ==
    [full_row(s, sv, s.i, s.i + 1, n) EXCEPT !.i = @ + 1]

\* after the loops: the characters index - res_length + 1 .. index, appended
\* one by one
full_result(s, sv) ==
    [s EXCEPT !.pc = "done",
              !.res = IF s.res_length > 0
                      THEN [k \in 1 .. s.res_length |-> sv[s.index - s.res_length + k]]
                      ELSE <<>>]

---------------------------------------------------------------------------
(* The callers: one call of an encoder on the arguments, then calls of the *)
(* decoders on the string (test_csd.cpp, test_stress.cpp, main)            *)

Digits == {"0", "+", "-"}
Nonzero == {"+", "-"}
Alphabet == Digits \cup {"."}
\* "X" stands for every character outside the alphabet
Chars == Alphabet \cup {"X"}

Ints == IntMin .. IntMax

\* doubles given to the real encoders, all multiples of 2^-FracBits: the ones
\* up to MaxReal, and the ones within 1.0 of the ends of the int range
SmallReals == {n * Pow2(PrecBits - FracBits) :
                  n \in -(MaxReal * Pow2(FracBits)) .. (MaxReal * Pow2(FracBits))}
BigReals == {sign * (Pow2(IntWidth - 1) * Unit + n * Pow2(PrecBits - FracBits)) :
                sign \in {-1, 1}, n \in -Pow2(FracBits) .. Pow2(FracBits)}
Reals == SmallReals \cup BigReals

\* strings given to the decoders: every string up to MaxLen, and a nonzero
\* digit followed by up to IntWidth '0' and a short tail
StringsUpTo(n) == UNION {[1 .. k -> Chars] : k \in 0 .. n}
Zeros(k) == [i \in 1 .. k |-> "0"]
ShortStrings == StringsUpTo(MaxLen)
LongStrings == {<<c>> \o Zeros(k) \o tail :
                   c \in Nonzero, k \in 0 .. IntWidth, tail \in StringsUpTo(MaxLen - 2)}
Strings == ShortStrings \cup LongStrings

NoCalls == dec = NotCalled /\ decSwitch = NotCalled /\ decI = NotCalled

\* no encoder is being executed step by step
NoRun == run = [pc |-> "idle"]

\* the texts given to longest_repeated_substring
Letters == {"a", "b", "c"}
Texts == UNION {[1 .. k -> Letters] : k \in 0 .. MaxText}

\* longest_repeated_substring is not running
NoLrs == text = <<>> /\ lrs = [pc |-> "idle"] /\ full = [pc |-> "idle"]

IntInit ==
    /\ value \in Ints
    /\ nnz \in 0 .. MaxNnz
    /\ places = 0
    /\ enc = "none"
    /\ csd = <<>>
    /\ NoCalls
    /\ NoRun
    /\ encThrown = "none"
    /\ NoLrs

RealInit ==
    /\ value \in Reals
    /\ places \in -MaxPlaces .. MaxPlaces
    /\ nnz \in 0 .. MaxNnz
    /\ enc = "none"
    /\ csd = <<>>
    /\ NoCalls
    /\ NoRun
    /\ encThrown = "none"
    /\ NoLrs

DecInit ==
    /\ value = 0
    /\ places = 0
    /\ nnz = 0
    /\ enc = "given"
    /\ csd \in Strings
    /\ NoCalls
    /\ NoRun
    /\ encThrown = "none"
    /\ NoLrs

CallToCsd ==
    /\ enc = "none"
    /\ csd' = to_csd(value, places)
    /\ enc' = "to_csd"
    /\ encThrown' = "none"
    /\ UNCHANGED <<value, places, nnz, dec, decSwitch, decI, text, lrs, full, run>>

CallToCsdnnz ==
    /\ enc = "none"
    /\ csd' = to_csdnnz(value, nnz)
    /\ enc' = "to_csdnnz"
    /\ encThrown' = "none"
    /\ UNCHANGED <<value, places, nnz, dec, decSwitch, decI, text, lrs, full, run>>

CallToCsdI ==
    /\ enc = "none"
    /\ csd' = to_csd_i(value)
    /\ enc' = "to_csd_i"
    /\ encThrown' = "none"
    /\ UNCHANGED <<value, places, nnz, dec, decSwitch, decI, text, lrs, full, run>>

CallToCsdnnzI ==
    /\ enc = "none"
    /\ csd' = to_csdnnz_i(value, nnz)
    /\ enc' = "to_csdnnz_i"
    /\ encThrown' = "none"
    /\ UNCHANGED <<value, places, nnz, dec, decSwitch, decI, text, lrs, full, run>>

CallToDecimal ==
    /\ enc # "none"
    /\ dec = NotCalled
    /\ dec' = to_decimal(csd)
    /\ UNCHANGED <<value, places, nnz, enc, encThrown, csd, decSwitch, decI, text, lrs, full, run>>

CallToDecimalUsingSwitch ==
    /\ enc # "none"
    /\ decSwitch = NotCalled
    /\ decSwitch' = to_decimal_using_switch(csd)
    /\ UNCHANGED <<value, places, nnz, enc, encThrown, csd, dec, decI, text, lrs, full, run>>

CallToDecimalI ==
    /\ enc # "none"
    /\ decI = NotCalled
    /\ decI' = to_decimal_i(csd)
    /\ UNCHANGED <<value, places, nnz, enc, encThrown, csd, dec, decSwitch, text, lrs, full, run>>

LrsInit ==
    /\ value = 0
    /\ places = 0
    /\ nnz = 0
    /\ enc = "none"
    /\ encThrown = "none"
    /\ csd = <<>>
    /\ NoCalls
    /\ NoRun
    /\ text \in Texts
    /\ lrs = lrs_start(Len(text))
    /\ full = [pc |-> "idle"]

\* one pass of the outer loop: the whole row i of the table
LrsOuter ==
    /\ lrs.pc = "loop"
    /\ lrs.i # Len(text) + 1
    /\ lrs' = lcsre_outer(lrs, text, Len(text) + 1)
    /\ UNCHANGED <<value, places, nnz, enc, encThrown, csd, dec, decSwitch, decI, text, full, run>>

\* the loops are over: the result is built and returned
LrsReturn ==
    /\ lrs.pc = "loop"
    /\ lrs.i = Len(text) + 1
    /\ lrs' = lrs_result(lrs, text)
    /\ UNCHANGED <<value, places, nnz, enc, encThrown, csd, dec, decSwitch, decI, text, full, run>>

\* the two revisions on the same text, advanced together row by row
BothInit ==
    /\ value = 0
    /\ places = 0
    /\ nnz = 0
    /\ enc = "none"
    /\ encThrown = "none"
    /\ csd = <<>>
    /\ NoCalls
    /\ NoRun
    /\ text \in Texts
    /\ lrs = lrs_start(Len(text))
    /\ full = full_start(Len(text))

\* row i of both tables
BothOuter ==
    /\ lrs.pc = "loop"
    /\ full.pc = "loop"
    /\ lrs.i # Len(text) + 1
    /\ full.i # Len(text) + 1
    /\ lrs' = lcsre_outer(lrs, text, Len(text) + 1)
    /\ full' = full_outer(full, text, Len(text))
    /\ UNCHANGED <<value, places, nnz, enc, encThrown, csd, dec, decSwitch, decI, text, run>>

\* both revisions build their result and return
BothReturn ==
    /\ lrs.pc = "loop"
    /\ full.pc = "loop"
    /\ lrs.i = Len(text) + 1
    /\ full.i = Len(text) + 1
    /\ lrs' = lrs_result(lrs, text)
    /\ full' = full_result(full, text)
    /\ UNCHANGED <<value, places, nnz, enc, encThrown, csd, dec, decSwitch, decI, text, run>>

\* an encoder executed one loop iteration at a time: run holds the function,
\* the place in it and its locals
RunInit ==
    /\ enc = "none"
    /\ encThrown = "none"
    /\ csd = <<>>
    /\ NoCalls
    /\ NoLrs
    /\ \/ /\ run = [fn |-> "to_csd", pc |-> "call"]
          /\ value \in Reals
          /\ places \in -MaxPlaces .. MaxPlaces
          /\ nnz = 0
       \/ /\ run = [fn |-> "to_csdnnz", pc |-> "call"]
          /\ value \in Reals
          /\ places = 0
          /\ nnz \in 0 .. MaxNnz
       \/ /\ run = [fn |-> "to_csdnnz_i", pc |-> "call"]
          /\ value \in Ints
          /\ places = 0
          /\ nnz \in 0 .. MaxNnz

\* to_csd up to its first loop
EnterToCsd ==
    /\ run = [fn |-> "to_csd", pc |-> "call"]
    /\ run' = [fn |-> "to_csd", pc |-> "integral", s |-> EncStart(value, 0)]
    /\ UNCHANGED <<value, places, nnz, enc, encThrown, csd, dec, decSwitch, decI,
                   text, lrs, full>>

\* one iteration of the while loop of loop_fn(0) or of loop_fn(-places)
DigitToCsd ==
    /\ run.pc \in {"integral", "fractional"}
    /\ run.fn = "to_csd"
    /\ loop_fn_guard(run.s, IF run.pc = "integral" THEN 0 ELSE -places)
    /\ run' = [run EXCEPT !.s = to_csd_step(@)]
    /\ UNCHANGED <<value, places, nnz, enc, encThrown, csd, dec, decSwitch, decI,
                   text, lrs, full>>

\* loop_fn(0) is over: csd += '.'
DotToCsd ==
    /\ run.pc = "integral"
    /\ run.fn = "to_csd"
    /\ ~loop_fn_guard(run.s, 0)
    /\ run' = [run EXCEPT !.pc = "fractional", !.s.csd = Append(@, ".")]
    /\ UNCHANGED <<value, places, nnz, enc, encThrown, csd, dec, decSwitch, decI,
                   text, lrs, full>>

\* loop_fn(-places) is over: return csd
ReturnToCsd ==
    /\ run.pc = "fractional"
    /\ run.fn = "to_csd"
    /\ ~loop_fn_guard(run.s, -places)
    /\ run' = [run EXCEPT !.pc = "done"]
    /\ csd' = run.s.csd
    /\ enc' = "to_csd"
    /\ encThrown' = "none"
    /\ UNCHANGED <<value, places, nnz, dec, decSwitch, decI, text, lrs, full>>

\* to_csdnnz up to its loop
EnterToCsdnnz ==
    /\ run = [fn |-> "to_csdnnz", pc |-> "call"]
    /\ run' = [fn |-> "to_csdnnz", pc |-> "loop", s |-> EncStart(value, nnz)]
    /\ UNCHANGED <<value, places, nnz, enc, encThrown, csd, dec, decSwitch, decI,
                   text, lrs, full>>

\* one iteration of to_csdnnz's while loop
DigitToCsdnnz ==
    /\ run.pc = "loop"
    /\ run.fn = "to_csdnnz"
    /\ to_csdnnz_guard(run.s)
    /\ run' = [run EXCEPT !.s = to_csdnnz_step(@)]
    /\ UNCHANGED <<value, places, nnz, enc, encThrown, csd, dec, decSwitch, decI,
                   text, lrs, full>>

ReturnToCsdnnz ==
    /\ run.pc = "loop"
    /\ run.fn = "to_csdnnz"
    /\ ~to_csdnnz_guard(run.s)
    /\ run' = [run EXCEPT !.pc = "done"]
    /\ csd' = run.s.csd
    /\ enc' = "to_csdnnz"
    /\ encThrown' = "none"
    /\ UNCHANGED <<value, places, nnz, dec, decSwitch, decI, text, lrs, full>>

\* the state of to_csdnnz_i before its loop, for every int, computed once
IntEncStartOf == [v \in Ints |-> IntEncStart(v, 0)]

\* to_csdnnz_i up to its loop, or its return of "0" for zero
EnterToCsdnnzI ==
    /\ run = [fn |-> "to_csdnnz_i", pc |-> "call"]
    /\ IF value = 0
       THEN /\ run' = [fn |-> "to_csdnnz_i", pc |-> "done"]
            /\ csd' = <<"0">>
            /\ enc' = "to_csdnnz_i"
       ELSE /\ run' = [fn |-> "to_csdnnz_i", pc |-> "loop",
                       s |-> [IntEncStartOf[value] EXCEPT !.nnz = nnz]]
            /\ UNCHANGED <<enc, csd>>
    /\ UNCHANGED <<value, places, nnz, encThrown, dec, decSwitch, decI, text, lrs, full>>

\* one iteration of to_csdnnz_i's while loop
DigitToCsdnnzI ==
    /\ run.pc = "loop"
    /\ run.fn = "to_csdnnz_i"
    /\ to_csdnnz_i_guard(run.s)
    /\ run' = [run EXCEPT !.s = to_csdnnz_i_step(@)]
    /\ UNCHANGED <<value, places, nnz, enc, encThrown, csd, dec, decSwitch, decI,
                   text, lrs, full>>

ReturnToCsdnnzI ==
    /\ run.pc = "loop"
    /\ run.fn = "to_csdnnz_i"
    /\ ~to_csdnnz_i_guard(run.s)
    /\ run' = [run EXCEPT !.pc = "done"]
    /\ csd' = run.s.csd
    /\ enc' = "to_csdnnz_i"
    /\ encThrown' = "none"
    /\ UNCHANGED <<value, places, nnz, dec, decSwitch, decI, text, lrs, full>>

IntNext == CallToCsdI \/ CallToCsdnnzI \/ CallToDecimalI \/ CallToDecimal

RealNext == CallToCsd \/ CallToCsdnnz \/ CallToDecimal

DecNext == CallToDecimal \/ CallToDecimalUsingSwitch \/ CallToDecimalI

\* the integer codec
SpecInt == IntInit /\ [][IntNext]_vars

\* the real codec
SpecReal == RealInit /\ [][RealNext]_vars

\* the decoders on caller-supplied strings
SpecDec == DecInit /\ [][DecNext]_vars

LrsNext == LrsOuter \/ LrsReturn

\* the repeated-substring finder
SpecLrs == LrsInit /\ [][LrsNext]_vars

RunNext ==
    \/ EnterToCsd \/ DigitToCsd \/ DotToCsd \/ ReturnToCsd
    \/ EnterToCsdnnz \/ DigitToCsdnnz \/ ReturnToCsdnnz
    \/ EnterToCsdnnzI \/ DigitToCsdnnzI \/ ReturnToCsdnnzI

\* the encoders step by step
SpecRun == RunInit /\ [][RunNext]_vars

\* a function that has been called executes its next statement
SpecRunFair == SpecRun /\ WF_vars(RunNext)

BothNext == BothOuter \/ BothReturn

\* the repeated-substring finder next to its full-table revision
SpecBoth == BothInit /\ [][BothNext]_vars

---------------------------------------------------------------------------
(* Vocabulary of the properties                                            *)

StripDot(s) == SelectSeq(s, LAMBDA c : c # ".")

NoAdjacentNonzero(s) ==
    \A i \in 1 .. Len(s) - 1 : ~(s[i] \in Nonzero /\ s[i + 1] \in Nonzero)

CountNonzero(s) == Cardinality({i \in DOMAIN s : s[i] \in Nonzero})

DigitValue(c) == IF c = "+" THEN 1 ELSE IF c = "-" THEN -1 ELSE 0

\* index of the first '.', Len(s) + 1 when there is none
RECURSIVE DotIndex(_, _)
DotIndex(s, i) == IF i > Len(s) \/ s[i] = "." THEN i ELSE DotIndex(s, i + 1)

\* a string over {0,+,-} with at most one '.'
WellFormed(s) ==
    /\ \A i \in DOMAIN s : s[i] \in Alphabet
    /\ Cardinality({i \in DOMAIN s : s[i] = "."}) <= 1

\* the weight 2^k of position i, in units of 2^-PrecBits: k = 0 just left of
\* the '.' (or at the last digit when there is none), k = -1 just right of it
Weight(s, i) ==
    LET d == DotIndex(s, 1)
    IN  IF i < d THEN Unit * Pow2(d - 1 - i) ELSE Unit \div Pow2(i - d)

RECURSIVE SumTo(_, _)
SumTo(s, i) ==
    IF i = 0 THEN 0
    ELSE SumTo(s, i - 1) + (IF s[i] = "." THEN 0 ELSE DigitValue(s[i]) * Weight(s, i))

\* the positional weighted sum of a well-formed string
WeightedSum(s) == SumTo(s, Len(s))

\* double-and-add in int, from the last digit backwards
RECURSIVE DoubleAndAdd(_)
DoubleAndAdd(a) ==
    IF a = <<>> THEN 0
    ELSE ToInt(2 * DoubleAndAdd(SubSeq(a, 1, Len(a) - 1)) + DigitValue(a[Len(a)]))

IntegralPart(s) == SubSeq(s, 1, DotIndex(s, 1) - 1)
FractionalPart(s) == SubSeq(s, DotIndex(s, 1) + 1, Len(s))
IsDigits(s) == \A i \in DOMAIN s : s[i] \in Digits

---------------------------------------------------------------------------
(* The properties                                                          *)

\* C1: decoding to_csd(v, places) with to_decimal gives a value within
\* 2^-places of v, for every double v and every places >= 0.
C1_RealRoundTrip ==
    (enc = "to_csd" /\ places >= 0 /\ dec # NotCalled)
        => (dec.kind = "value" /\ Abs(dec.val - value) * Pow2(places) <= Unit)

\* C2: to_decimal_i(to_csd_i(v)) = v for every int v.
C2_IntRoundTrip ==
    (enc = "to_csd_i" /\ decI # NotCalled) => decI = Returned(value)

\* C3: the string to_csd returns never has two adjacent nonzero symbols once
\* the '.' is ignored.
C3_RealCanonical ==
    enc = "to_csd" => NoAdjacentNonzero(StripDot(csd))

\* C4: the string to_csd_i returns consists of '0', '+', '-' only and never
\* has two adjacent nonzero symbols.
C4_IntCanonical ==
    enc = "to_csd_i" => (IsDigits(csd) /\ NoAdjacentNonzero(csd))

\* to_csd_i has returned a string of four or more digits, two of them nonzero
C4_Witness ==
    enc = "to_csd_i" /\ Len(csd) >= 4 /\ CountNonzero(csd) >= 2

\* C5: the strings to_csdnnz and to_csdnnz_i return hold at most nnz symbols
\* from {'+', '-'}, for every nnz >= 0.
C5_NonzeroBudget ==
    enc \in {"to_csdnnz", "to_csdnnz_i"} => CountNonzero(csd) <= nnz

\* C6: with nnz = 0, to_csdnnz and to_csdnnz_i return a string without '+'
\* and '-'.
C6_ZeroBudgetAllZero ==
    (enc \in {"to_csdnnz", "to_csdnnz_i"} /\ nnz = 0) => CountNonzero(csd) = 0

\* C7: to_decimal throws, and returns no number, for every string that has
\* a character outside {'0','+','-','.'} anywhere.
C7_InvalidRejected ==
    (dec # NotCalled /\ \E i \in DOMAIN csd : csd[i] \notin Alphabet)
        => (dec.kind = "invalid_argument" /\ "val" \notin DOMAIN dec)

\* to_decimal has thrown on a string whose only invalid character stands
\* after the '.', behind a nonzero digit
C7_Witness ==
    /\ dec.kind = "invalid_argument"
    /\ IsDigits(IntegralPart(csd))
    /\ \E i \in DOMAIN csd :
          /\ i > DotIndex(csd, 1) + 1
          /\ csd[i] \notin Alphabet
          /\ csd[i - 1] \in Nonzero

\* C8: to_decimal returns the positional weighted sum of every well-formed
\* string, canonical or not.
C8_WeightedSum ==
    (dec # NotCalled /\ WellFormed(csd)) => dec = Returned(WeightedSum(csd))

\* C9: to_decimal and to_decimal_using_switch return the same value or both
\* throw, on every string.
C9_DecodersAgree ==
    (dec # NotCalled /\ decSwitch # NotCalled)
        => /\ dec.kind = decSwitch.kind
           /\ dec.kind = "value" => dec.val = decSwitch.val

\* C10: to_decimal_i(a . f) = to_decimal_i(a), the double-and-add value of
\* a, for all digit strings a and f.
C10_FractionIgnored ==
    (decI # NotCalled /\ DotIndex(csd, 1) <= Len(csd)
        /\ IsDigits(IntegralPart(csd)) /\ IsDigits(FractionalPart(csd)))
        => /\ decI = to_decimal_i(IntegralPart(csd))
           /\ decI = Returned(DoubleAndAdd(IntegralPart(csd)))

\* to_decimal_i has returned a nonzero value for a string with a nonzero digit
\* after the '.'
C10_Witness ==
    /\ decI.kind = "value"
    /\ decI.val # 0
    /\ DotIndex(csd, 1) <= Len(csd)
    /\ IsDigits(IntegralPart(csd))
    /\ IsDigits(FractionalPart(csd))
    /\ CountNonzero(FractionalPart(csd)) > 0

\* C11: to_decimal_i throws for every string that has a character outside
\* {'0','+','-','.'} at any position.
C11_IntDecodeRejectsInvalid ==
    (decI # NotCalled /\ \E i \in DOMAIN csd : csd[i] \notin Alphabet)
        => decI.kind = "invalid_argument"

C14_BeginsWithDot ==
    (enc = "to_csd" /\ 0 < Abs(value) /\ Abs(value) < Unit)
        => (csd # <<>> /\ csd[1] = ".")

\* C14, amended: for 0 < |value| < 1 the string to_csd returns begins with
\* one '0' followed by the separator.
C14_BeginsWithZeroDot ==
    (enc = "to_csd" /\ 0 < Abs(value) /\ Abs(value) < Unit)
        => (Len(csd) >= 2 /\ csd[1] = "0" /\ csd[2] = ".")

\* to_csd has encoded a magnitude between 0 and 1 with a nonzero fractional
\* digit
C14_Witness ==
    /\ enc = "to_csd"
    /\ 0 < Abs(value)
    /\ Abs(value) < Unit
    /\ CountNonzero(FractionalPart(csd)) > 0

---------------------------------------------------------------------------
(* Vocabulary of the repeat finder's properties (positions count from 1)   *)

\* the m characters of t from position p
Sub(t, p, m) == SubSeq(t, p, p + m - 1)

\* the m characters at p occur again at q, behind the first copy
RepeatAt(t, p, q, m) ==
    /\ q >= p + m
    /\ q + m - 1 <= Len(t)
    /\ Sub(t, p, m) = Sub(t, q, m)

\* the start positions of the substrings of length m that have a
\* non-overlapping repeat behind them
RepeatStarts(t, m) ==
    {p \in 1 .. Len(t) : \E q \in 1 .. Len(t) : RepeatAt(t, p, q, m)}

\* the greatest length of a substring with a non-overlapping repeat
MaxRepeat(t) ==
    CHOOSE m \in 0 .. Len(t) :
        /\ m > 0 => RepeatStarts(t, m) # {}
        /\ \A k \in m + 1 .. Len(t) : RepeatStarts(t, k) = {}

Least(S) == CHOOSE p \in S : \A r \in S : p <= r

LrsDone == lrs.pc = "done"

\* C15: a non-empty result r occurs in the text at two positions p < q with
\* q >= p + |r|, hence |r| <= floor(n / 2).
C15_Sound ==
    (LrsDone /\ lrs.res # <<>>)
        => /\ \E p, q \in 1 .. Len(text) :
                /\ p < q
                /\ RepeatAt(text, p, q, Len(lrs.res))
                /\ Sub(text, p, Len(lrs.res)) = lrs.res
           /\ Len(lrs.res) <= Len(text) \div 2

\* a result of two or more characters on a text where a longer substring
\* repeats with overlap
C15_Witness ==
    /\ LrsDone
    /\ Len(lrs.res) >= 2
    /\ \E p, q \in 1 .. Len(text) :
          /\ p < q
          /\ q + Len(lrs.res) <= Len(text)
          /\ Sub(text, p, Len(lrs.res) + 1) = Sub(text, q, Len(lrs.res) + 1)

\* C16: no substring strictly longer than the result occurs at two
\* non-overlapping positions of the text.
C16_Maximal ==
    LrsDone => \A m \in Len(lrs.res) + 1 .. Len(text) : RepeatStarts(text, m) = {}

\* a result of two or more characters whose first copy is not at the start
\* of the text
C16_Witness ==
    LrsDone /\ Len(lrs.res) >= 2 /\ 1 \notin RepeatStarts(text, Len(lrs.res))

\* C17: when substrings of the greatest length m have non-overlapping
\* repeats, the result is the one that starts at the smallest position p
\* with a repeat at some q >= p + m; index is the end of that copy.
C17_LeftmostStart ==
    (LrsDone /\ MaxRepeat(text) > 0)
        => LET m == MaxRepeat(text)
               p == Least(RepeatStarts(text, m))
           IN  /\ lrs.res = Sub(text, p, m)
               /\ lrs.index = p + m - 1

\* two different substrings of the greatest length, two or more characters,
\* repeat; the result is not the last of them (another one starts behind it)
\* and not the lexicographically smallest (one that begins with "a" repeats,
\* the result begins with another letter)
C17_Witness ==
    /\ LrsDone
    /\ Len(lrs.res) >= 2
    /\ lrs.res[1] # "a"
    /\ LET m == Len(lrs.res)
           S == RepeatStarts(text, m)
       IN  \E p \in S : p > lrs.index /\ text[p] = "a"

\* C18: the result is empty exactly when no character occurs twice in the
\* text, the empty text and a single character included.
C18_EmptyIffNoRepeat ==
    LrsDone
        => (lrs.res = <<>>
               <=> \A i, j \in 1 .. Len(text) : i < j => text[i] # text[j])

\* an empty result on a text of three different characters
C18_Witness ==
    LrsDone /\ lrs.res = <<>> /\ Len(text) = 3

\* C19: on n copies of one character the result is floor(n / 2) copies of
\* it, for every n >= 0.
C19_OneCharacter ==
    (LrsDone /\ \A i \in 1 .. Len(text) : text[i] = text[1])
        => lrs.res = SubSeq(text, 1, Len(text) \div 2)

\* five copies of one character have given two
C19_Witness ==
    /\ LrsDone
    /\ Len(text) = 5
    /\ \A i \in 1 .. Len(text) : text[i] = text[1]
    /\ Len(lrs.res) = 2

\* C20: to_csd with places < 0 ends in an invalid-argument error and
\* returns no string.
C20_NegativePlacesRejected ==
    (enc = "to_csd" /\ places < 0)
        => (encThrown = "invalid_argument" /\ csd = <<>>)

---------------------------------------------------------------------------
(* Vocabulary of the minimality property                                   *)

\* every string of digits as long as an int is wide; a longer string decodes
\* like its last IntWidth digits, the earlier ones being shifted out
DigitStrings == UNION {[1 .. k -> Digits] : k \in 0 .. IntWidth}

\* the ints that to_decimal_i returns for a string with k nonzero digits
DecodedWith(k) ==
    {to_decimal_i(s).val : s \in {t \in DigitStrings : CountNonzero(t) = k}}

DecodedWithTable == [k \in 0 .. IntWidth |-> DecodedWith(k)]

\* the fewest nonzero digits of a string that to_decimal_i decodes to v
FewestNonzero(v) ==
    CHOOSE k \in 0 .. IntWidth :
        /\ v \in DecodedWithTable[k]
        /\ \A h \in 0 .. k - 1 : v \notin DecodedWithTable[h]

\* C21: no string over {'0','+','-'} that to_decimal_i decodes to v has fewer
\* nonzero symbols than to_csd_i(v), for every int v.
C21_MinimalNonzero ==
    enc = "to_csd_i" => CountNonzero(csd) <= FewestNonzero(value)

\* s with every digit behind its k-th nonzero digit replaced by '0'
RECURSIVE TruncateAfter(_, _)
TruncateAfter(s, k) ==
    IF s = <<>> THEN <<>>
    ELSE IF k = 0 THEN Zeros(Len(s))
    ELSE <<Head(s)>> \o TruncateAfter(Tail(s), IF Head(s) \in Nonzero THEN k - 1 ELSE k)

\* C22: for every int v and every max_nonzero >= 1, to_csdnnz_i(v, max_nonzero)
\* is as long as to_csd_i(v), agrees with it up to and including its
\* max_nonzero-th nonzero symbol, and is '0' behind it.
C22_Truncation ==
    (enc = "to_csdnnz_i" /\ nnz >= 1)
        => /\ Len(csd) = Len(to_csd_i(value))
           /\ csd = TruncateAfter(to_csd_i(value), nnz)
           /\ CountNonzero(to_csd_i(value)) <= nnz => csd = to_csd_i(value)

\* to_csdnnz_i has cut a string of to_csd_i that has more nonzero symbols than
\* the budget of two or more
C22_Witness ==
    /\ enc = "to_csdnnz_i"
    /\ nnz >= 2
    /\ 3 * Abs(value) <= IntMax
    /\ CountNonzero(to_csd_i(value)) > nnz
    /\ CountNonzero(csd) = nnz
    /\ csd # to_csd_i(value)

\* the position of the first character outside {'0','+','-','.'}
FirstInvalid(s) ==
    CHOOSE i \in DOMAIN s :
        s[i] \notin Alphabet /\ \A h \in 1 .. i - 1 : s[h] \in Alphabet

HasInvalid(s) == \E i \in DOMAIN s : s[i] \notin Alphabet

\* C23 as stated: when to_decimal rejects a string, the error carries the
\* position of the first character outside {'0','+','-','.'}.
C23_ErrorCarriesPosition ==
    (dec.kind = "invalid_argument" /\ HasInvalid(csd))
        => ("pos" \in DOMAIN dec /\ dec.pos = FirstInvalid(csd))

\* C23, amended: when to_decimal rejects a string, the error carries a fixed
\* message and nothing else: one message when a character outside the
\* alphabet stands before the first '.', the other when the scan of the
\* fractional part meets one or a second '.'.
C23_ErrorIsFixedMessage ==
    dec.kind = "invalid_argument"
        => dec = Thrown(IF HasInvalid(IntegralPart(csd))
                        THEN "Work with 0, +, -, and . only"
                        ELSE "Fractional part work with 0, +, and - only")

\* to_decimal has rejected a string whose first invalid character is not the
\* first character, and it rejects the string without its first digit, where
\* that character stands one position earlier, with the same error
C23_Witness ==
    /\ dec.kind = "invalid_argument"
    /\ HasInvalid(csd)
    /\ FirstInvalid(csd) > 1
    /\ csd[1] \in Digits
    /\ to_decimal(Tail(csd)) = dec

\* C24: the revision with the two-row table returns the same string as the
\* revision with the full table, on every text: every cell it reads from row
\* (i - 1) mod 2 holds what the full table holds in row i - 1 (written during
\* iteration i - 1, or an initial zero when i = 1).
C24_RollingEqualsFull ==
    /\ (lrs.pc = "done" /\ full.pc = "done") => lrs.res = full.res
    /\ (lrs.pc = "loop" /\ full.pc = "loop")
          => /\ lrs.i = full.i
             /\ lrs.res_length = full.res_length
             /\ lrs.index = full.index
             /\ \A j \in lrs.i + 1 .. Len(text) :
                   lrs.lcsre[(lrs.i - 1) % 2][j - 1] = full.lcsre[lrs.i - 1][j - 1]

\* both revisions have returned a string of two or more characters, and a row
\* of the two-row table still holds a cell of an earlier row that the full
\* table does not have in this row
C24_Witness ==
    /\ lrs.pc = "done"
    /\ full.pc = "done"
    /\ Len(lrs.res) >= 2
    /\ \E c \in 1 .. Len(text) :
          lrs.lcsre[Len(text) % 2][c] # full.lcsre[Len(text)][c]

\* the largest k <= bound such that the k characters that end at position
\* i equal the k characters that end at position j
CommonRun(t, i, j, bound) ==
    CHOOSE k \in 0 .. bound :
        /\ k <= i
        /\ Sub(t, i - k + 1, k) = Sub(t, j - k + 1, k)
        /\ \A h \in k + 1 .. bound :
              ~(h <= i /\ Sub(t, i - h + 1, h) = Sub(t, j - h + 1, h))

\* row i of the table has just been filled
RowFilled(i) == lrs.pc = "loop" /\ lrs.i = i + 1

OverflowFree(v) == 3 * Abs(v) <= IntMax

\* C27: for every int v of the overflow-free range, 0 included,
\* to_csd(double(v), 0) is to_csd_i(v) followed by "."; for v # 0 the first
\* weight 2 * highest_power_of_two_in(floor(3|v|/2)) is 2^ceil(log2(1.5|v|)).
C27_SameDecisions ==
    (enc = "to_csd_i" /\ OverflowFree(value))
        => /\ to_csd(value * Unit, 0) = csd \o <<".">>
           /\ value # 0
                 => /\ IntEncStart(value, 0).p2n * Unit = EncStart(value * Unit, 0).p2n
                    /\ IntEncStart(value, 0).p2n
                          = Pow2(CeilLog2x15(Abs(value) * Unit, 0))

\* to_csd_i has encoded an int of the overflow-free range with five or more
\* digits, three of them nonzero
C27_Witness ==
    /\ enc = "to_csd_i"
    /\ OverflowFree(value)
    /\ Len(csd) >= 5
    /\ CountNonzero(csd) >= 3

\* C28: for every int v with 3 * |v| <= INT_MAX, to_decimal_i(to_csd_i(v))
\* and to_decimal(to_csd_i(v)) are v.
C28_RoundTripInRange ==
    (enc = "to_csd_i" /\ OverflowFree(value))
        => /\ decI # NotCalled => decI = Returned(value)
           /\ dec # NotCalled => dec = Returned(value * Unit)

\* both decoders have returned a negative int of the overflow-free range
\* whose string has two or more nonzero digits
C28_Witness ==
    /\ enc = "to_csd_i"
    /\ OverflowFree(value)
    /\ value < 0
    /\ CountNonzero(csd) >= 2
    /\ decI = Returned(value)
    /\ dec = Returned(value * Unit)

\* C30: for every string over {'0','+','-','.'} with two or more '.',
\* to_decimal and to_decimal_using_switch end in the invalid-argument error,
\* and to_decimal_i returns the (int, double-and-add) value of the digits
\* before the first '.' without error.
C30_SecondDotRejected ==
    (/\ \A i \in DOMAIN csd : csd[i] \in Alphabet
     /\ Cardinality({i \in DOMAIN csd : csd[i] = "."}) >= 2)
        => /\ dec # NotCalled => dec.kind = "invalid_argument"
           /\ decSwitch # NotCalled => decSwitch.kind = "invalid_argument"
           /\ decI # NotCalled => decI = Returned(DoubleAndAdd(IntegralPart(csd)))

\* the three decoders have been called on a string with a nonzero digit
\* before the first '.', a digit between the two '.', and a nonzero int result
C30_Witness ==
    /\ dec.kind = "invalid_argument"
    /\ decSwitch.kind = "invalid_argument"
    /\ decI.kind = "value"
    /\ decI.val # 0
    /\ \A i \in DOMAIN csd : csd[i] \in Alphabet
    /\ \E i, j \in DOMAIN csd : i + 1 < j /\ csd[i] = "." /\ csd[j] = "."

=============================================================================
